---- MODULE Spec2Model ----
(***************************************************************************)
(* Yield-prediction subsystem of Mini-Agronomist (backend/core/ml.py):     *)
(* the in-memory registry active_models, the artifacts under saved_models, *)
(* the structured training source, and the calls train_from_csv,           *)
(* train_model, predict_yield and get_available_models.                    *)
(*                                                                         *)
(* A file is named by its base name inside saved_models ("m.joblib").      *)
(* A fitted model is [kind, run]: kind is the Python class of the object   *)
(* ("Pipeline" or "RandomForestRegressor"), run numbers the fit that made  *)
(* it.  A feature batch is a sequence of "dict" / "list" tags, one per     *)
(* record; targets are represented by their length.                        *)
(***************************************************************************)
EXTENDS Integers, Sequences, FiniteSets, TLC

VARIABLES active_models, disk, csv, runs, last,
          frame, threads, self_models, self_scalers, pkl

\* the state of backend/core/ml.py
ml == <<active_models, disk, csv, runs, last>>

\* the input frame of one modern prediction (predict_yield, lines 136-143)
fill == <<frame>>

\* the calls of two request threads that are in progress at the same time
race == <<threads>>

\* the state of backend/main.py: AgriculturalComputer's self.models and self.scalers, and
\* the files under models/
main == <<self_models, self_scalers, pkl>>

vars == <<active_models, disk, csv, runs, last,
          frame, threads, self_models, self_scalers, pkl>>

\* ---------------------------------------------------------------- bounds
MaxBatch == 2
MaxRuns == 2

\* ---------------------------------------------------------------- inputs
\* the names calls are made with: "demo_model", which predict_yield tests
\* twice (lines 116 and 119); "default", which stands for the two names
\* that line 116 alone mentions ("default" and "real_model" are treated
\* alike everywhere); and an ordinary name, chosen so that the legacy
\* artifact of "demo_model" is the artifact of this name
ModelNames == {"default", "demo_model", "demo_model_legacy"}

Batches ==
    { [i \in 1..n |-> tag] : n \in 0..MaxBatch, tag \in {"dict", "list"} }

TargetLens == 0..MaxBatch

\* ---------------------------------------------------------------- helpers
NoModel == [kind |-> "none", run |-> 0]

Put(f, k, v) == [x \in (DOMAIN f) \cup {k} |-> IF x = k THEN v ELSE f[x]]

Range(s) == { s[i] : i \in DOMAIN s }

\* os.path.join(MODELS_DIR, f"{model_name}.joblib")
ModelPath(model_name) == model_name \o ".joblib"

\* os.path.join(MODELS_DIR, f"{model_name}_legacy.joblib")
LegacyPath(model_name) == model_name \o "_legacy.joblib"

\* os.path.exists(path) for a path under saved_models
Exists(path) == path \in DOMAIN disk

\* isinstance(features, list) and len(features) > 0 and isinstance(features[0], list)
IsListOfLists(features) == Len(features) > 0 /\ features[1] = "list"

\* isinstance(features, list) and len(features) > 0 and isinstance(features[0], dict)
IsListOfDicts(features) == Len(features) > 0 /\ features[1] = "dict"

\* isinstance(model, Pipeline)
IsPipeline(model) == model.kind = "Pipeline"

\* model_name in ["default", "demo_model", "real_model"]
DesignatedNames == {"default", "demo_model", "real_model"}

\* model.fit(X, y): raises on an empty training set (no columns to select,
\* no samples) and on len(X) # len(y)
FitOk(features, nt) == Len(features) > 0 /\ Len(features) = nt

\* model.predict(X): one value per row, in row order; raises on zero rows
InferOk(features) == Len(features) > 0

ModelPredict(features) == [i \in 1..Len(features) |-> <<"model", i>>]

\* _dummy_predict: one random value per element of features
_dummy_predict(features) == [i \in 1..Len(features) |-> <<"dummy", i>>]

\* [0.0] in place of [0.0] * len(features)
ZeroPlaceholder_single(features) == << <<"zero", 1>> >>

\* [0.0] * len(features)
ZeroPlaceholder(features) == [i \in 1..Len(features) |-> <<"zero", i>>]

\* ---------------------------------------------------------------- calls
\* the record of a call: its inputs, the registry entry of its name when it
\* starts (prior), and its outcome
Call(op, name, features) ==
    [op |-> op, name |-> name, features |-> features,
     prior |-> IF name \in DOMAIN active_models THEN active_models[name]
                                                ELSE NoModel,
     status |-> "ok", err |-> "none", how |-> "none", path |-> "none",
     by |-> NoModel, out |-> <<>>]

Raise(call, err) == [call EXCEPT !.status = "raise", !.err = err]

\* no prediction frame is being built
NoFrame == [pc |-> "none", features |-> <<>>, df |-> <<>>, status |-> "none"]

Init ==
    /\ active_models = <<>>
    /\ disk = <<>>
    /\ csv \in BOOLEAN
    /\ runs = 0
    /\ last = Call("init", "", <<>>)
    /\ frame = NoFrame
    /\ threads = <<>>
    /\ self_models = <<>>
    /\ self_scalers = <<>>
    /\ pkl = <<>>

\* train_from_csv that refuses a name that already has an artifact
train_from_csv_noOverwrite(model_name) ==
    LET call == Call("train_from_csv", model_name, <<>>)
        model == [kind |-> "Pipeline", run |-> runs + 1]
    IN  IF ~csv
        THEN /\ last' = Raise(call, "FileNotFoundError")
             /\ UNCHANGED <<active_models, disk, csv, runs>>
        ELSE IF Exists(ModelPath(model_name))
        THEN /\ last' = Raise(call, "FileExistsError")
             /\ UNCHANGED <<active_models, disk, csv, runs>>
        ELSE /\ runs < MaxRuns
             /\ runs' = runs + 1
             /\ disk' = Put(disk, ModelPath(model_name), model)
             /\ active_models' = Put(active_models, model_name, model)
             /\ last' = [call EXCEPT !.by = model]
             /\ UNCHANGED csv

\* train_from_csv(model_name)
train_from_csv(model_name) ==
    LET call == Call("train_from_csv", model_name, <<>>)
        model == [kind |-> "Pipeline", run |-> runs + 1]
    IN  IF ~csv
        THEN /\ last' = Raise(call, "FileNotFoundError")
             /\ UNCHANGED <<active_models, disk, csv, runs>>
        ELSE /\ runs < MaxRuns
             /\ runs' = runs + 1
             /\ disk' = Put(disk, ModelPath(model_name), model)
             /\ active_models' = Put(active_models, model_name, model)
             /\ last' = [call EXCEPT !.by = model]
             /\ UNCHANGED csv

\* _train_legacy_dummy without the registry write of line 100
_train_legacy_dummy_noRegister(features, nt, model_name) ==
    LET call == Call("train_model", model_name, features)
        model == [kind |-> "RandomForestRegressor", run |-> runs + 1]
    IN  IF ~FitOk(features, nt)
        THEN /\ last' = Raise(call, "ValueError")
             /\ UNCHANGED <<active_models, disk, csv, runs>>
        ELSE /\ runs < MaxRuns
             /\ runs' = runs + 1
             /\ disk' = Put(disk, LegacyPath(model_name), model)
             /\ last' = [call EXCEPT !.by = model]
             /\ UNCHANGED <<active_models, csv>>

\* _train_legacy_dummy(features, targets, model_name)
_train_legacy_dummy(features, nt, model_name) ==
    LET call == Call("train_model", model_name, features)
        model == [kind |-> "RandomForestRegressor", run |-> runs + 1]
    IN  IF ~FitOk(features, nt)
        THEN /\ last' = Raise(call, "ValueError")
             /\ UNCHANGED <<active_models, disk, csv, runs>>
        ELSE /\ runs < MaxRuns
             /\ runs' = runs + 1
             /\ disk' = Put(disk, LegacyPath(model_name), model)
             /\ active_models' = Put(active_models, model_name, model)
             /\ last' = [call EXCEPT !.by = model]
             /\ UNCHANGED csv

\* train_model that registers the pipeline before fitting it
train_model_registerFirst(features, nt, model_name) ==
    LET call == Call("train_model", model_name, features)
        model == [kind |-> "Pipeline", run |-> runs + 1]
    IN  IF IsListOfLists(features)
        THEN _train_legacy_dummy(features, nt, model_name)
        ELSE IF ~FitOk(features, nt)
        THEN /\ last' = Raise(call, IF Len(features) = 0 THEN "KeyError"
                                                        ELSE "ValueError")
             /\ active_models' = Put(active_models, model_name,
                                     [kind |-> "Pipeline", run |-> 0])
             /\ UNCHANGED <<disk, csv, runs>>
        ELSE /\ runs < MaxRuns
             /\ runs' = runs + 1
             /\ disk' = Put(disk, ModelPath(model_name), model)
             /\ active_models' = Put(active_models, model_name, model)
             /\ last' = [call EXCEPT !.by = model]
             /\ UNCHANGED csv

\* train_model(features, targets, model_name)
train_model(features, nt, model_name) ==
    LET call == Call("train_model", model_name, features)
        model == [kind |-> "Pipeline", run |-> runs + 1]
    IN  IF IsListOfLists(features)
        THEN _train_legacy_dummy(features, nt, model_name)
        ELSE IF ~FitOk(features, nt)
        THEN /\ last' = Raise(call, IF Len(features) = 0 THEN "KeyError"
                                                        ELSE "ValueError")
             /\ UNCHANGED <<active_models, disk, csv, runs>>
        ELSE /\ runs < MaxRuns
             /\ runs' = runs + 1
             /\ disk' = Put(disk, ModelPath(model_name), model)
             /\ active_models' = Put(active_models, model_name, model)
             /\ last' = [call EXCEPT !.by = model]
             /\ UNCHANGED csv

\* Resolution without the model-not-found branch
Resolution_noNotFound(model_name) ==
    IF model_name \in DOMAIN active_models THEN "hit"
    ELSE IF Exists(ModelPath(model_name)) THEN "load"
    ELSE IF model_name \in DesignatedNames /\ csv THEN "autotrain"
    ELSE "dummy"

\* Resolution without the demo_model stand-in branch
Resolution_noDummy(model_name) ==
    IF model_name \in DOMAIN active_models THEN "hit"
    ELSE IF Exists(ModelPath(model_name)) THEN "load"
    ELSE IF model_name \in DesignatedNames /\ csv THEN "autotrain"
    ELSE "notfound"

\* Resolution that tries auto-training before looking for an artifact
Resolution_trainFirst(model_name) ==
    IF model_name \in DOMAIN active_models THEN "hit"
    ELSE IF model_name \in DesignatedNames /\ csv THEN "autotrain"
    ELSE IF Exists(ModelPath(model_name)) THEN "load"
    ELSE IF model_name = "demo_model" THEN "dummy"
    ELSE "notfound"

\* Resolution that looks at the directory before the registry
Resolution_diskFirst(model_name) ==
    IF Exists(ModelPath(model_name)) THEN "load"
    ELSE IF model_name \in DOMAIN active_models THEN "hit"
    ELSE IF model_name \in DesignatedNames /\ csv THEN "autotrain"
    ELSE IF model_name = "demo_model" THEN "dummy"
    ELSE "notfound"

\* predict_yield, lines 109-122: how a name is resolved
Resolution(model_name) ==
    IF model_name \in DOMAIN active_models THEN "hit"
    ELSE IF Exists(ModelPath(model_name)) THEN "load"
    ELSE IF model_name \in DesignatedNames /\ csv THEN "autotrain"
    ELSE IF model_name = "demo_model" THEN "dummy"
    ELSE "notfound"

\* Serve without the two shape checks: every batch goes to the model
Serve_noShapeCheck(call, model, features) ==
    IF InferOk(features)
    THEN [call EXCEPT !.path = "model", !.by = model,
                      !.out = ModelPredict(features)]
    ELSE Raise(call, "ValueError")

\* predict_yield, lines 124-153: input shape against model type
Serve(call, model, features) ==
    IF IsPipeline(model)
    THEN IF IsListOfLists(features)
         THEN [call EXCEPT !.path = "fallback",
                           !.out = _dummy_predict(features)]
         ELSE IF InferOk(features)
         THEN [call EXCEPT !.path = "model", !.by = model,
                           !.out = ModelPredict(features)]
         ELSE Raise(call, "ValueError")
    ELSE IF IsListOfDicts(features)
         THEN [call EXCEPT !.path = "placeholder",
                           !.out = ZeroPlaceholder(features)]
         ELSE IF InferOk(features)
         THEN [call EXCEPT !.path = "model", !.by = model,
                           !.out = ModelPredict(features)]
         ELSE Raise(call, "ValueError")

\* predict_yield that registers a stand-in entry when it falls back
predict_yield_cachesFallback(features, model_name) ==
    LET how == Resolution(model_name)
        call == [Call("predict_yield", model_name, features)
                     EXCEPT !.how = how]
        trained == [kind |-> "Pipeline", run |-> runs + 1]
    IN  CASE how = "hit" ->
               /\ last' = Serve(call, active_models[model_name], features)
               /\ UNCHANGED <<active_models, disk, csv, runs>>
          [] how = "load" ->
               /\ active_models' = Put(active_models, model_name,
                                       disk[ModelPath(model_name)])
               /\ last' = Serve(call, disk[ModelPath(model_name)], features)
               /\ UNCHANGED <<disk, csv, runs>>
          [] how = "autotrain" ->
               /\ runs < MaxRuns
               /\ runs' = runs + 1
               /\ disk' = Put(disk, ModelPath(model_name), trained)
               /\ active_models' = Put(active_models, model_name, trained)
               /\ last' = Serve(call, trained, features)
               /\ UNCHANGED csv
          [] how = "dummy" ->
               /\ last' = [call EXCEPT !.path = "fallback",
                                       !.out = _dummy_predict(features)]
               /\ active_models' = Put(active_models, model_name,
                                       [kind |-> "Pipeline", run |-> 0])
               /\ UNCHANGED <<disk, csv, runs>>
          [] how = "notfound" ->
               /\ last' = Raise(call, "ValueError")
               /\ UNCHANGED <<active_models, disk, csv, runs>>

\* predict_yield(features, model_name)
predict_yield(features, model_name) ==
    LET how == Resolution(model_name)
        call == [Call("predict_yield", model_name, features)
                     EXCEPT !.how = how]
        trained == [kind |-> "Pipeline", run |-> runs + 1]
    IN  CASE how = "hit" ->
               /\ last' = Serve(call, active_models[model_name], features)
               /\ UNCHANGED <<active_models, disk, csv, runs>>
          [] how = "load" ->
               /\ active_models' = Put(active_models, model_name,
                                       disk[ModelPath(model_name)])
               /\ last' = Serve(call, disk[ModelPath(model_name)], features)
               /\ UNCHANGED <<disk, csv, runs>>
          [] how = "autotrain" ->
               /\ runs < MaxRuns
               /\ runs' = runs + 1
               /\ disk' = Put(disk, ModelPath(model_name), trained)
               /\ active_models' = Put(active_models, model_name, trained)
               /\ last' = Serve(call, trained, features)
               /\ UNCHANGED csv
          [] how = "dummy" ->
               /\ last' = [call EXCEPT !.path = "fallback",
                                       !.out = _dummy_predict(features)]
               /\ UNCHANGED <<active_models, disk, csv, runs>>
          [] how = "notfound" ->
               /\ last' = Raise(call, "ValueError")
               /\ UNCHANGED <<active_models, disk, csv, runs>>

\* f.endswith(".joblib")
EndsWithJoblib(f) ==
    Len(f) >= 7 /\ SubSeq(f, Len(f) - 6, Len(f)) = ".joblib"

\* f.replace(".joblib", ""): every occurrence is removed, scanning from i
RECURSIVE ReplaceFrom(_, _)
ReplaceFrom(f, i) ==
    IF i > Len(f) THEN ""
    ELSE IF i + 6 <= Len(f) /\ SubSeq(f, i, i + 6) = ".joblib"
         THEN ReplaceFrom(f, i + 7)
         ELSE SubSeq(f, i, i) \o ReplaceFrom(f, i + 1)

ReplaceJoblib(f) == ReplaceFrom(f, 1)

\* list(d.keys()) / os.listdir(d): the elements of S in some order
RECURSIVE Listing(_)
Listing(S) ==
    IF S = {} THEN <<>>
    ELSE LET x == CHOOSE y \in S : TRUE IN <<x>> \o Listing(S \ {x})

\* get_available_models, lines 165-169: the loop over the directory, from
\* the i-th file on
RECURSIVE AppendFiles(_, _, _)
AppendFiles(models, files, i) ==
    IF i > Len(files) THEN models
    ELSE IF EndsWithJoblib(files[i])
              /\ ReplaceJoblib(files[i]) \notin Range(models)
         THEN AppendFiles(Append(models, ReplaceJoblib(files[i])), files, i + 1)
         ELSE AppendFiles(models, files, i + 1)

\* get_available_models() on a given registry and directory
AvailableModels(am, dk) ==
    AppendFiles(Listing(DOMAIN am), Listing(DOMAIN dk), 1)

get_available_models == AvailableModels(active_models, disk)

\* get_available_models() as a call
list_models ==
    /\ last' = [Call("get_available_models", "", <<>>)
                    EXCEPT !.out = get_available_models]
    /\ UNCHANGED <<active_models, disk, csv, runs>>

\* process restart: the module is imported again, active_models = {}
Restart ==
    /\ active_models' = <<>>
    /\ last' = Call("restart", "", <<>>)
    /\ UNCHANGED <<disk, csv, runs>>

\* an artifact is deleted from saved_models outside the program
RemoveArtifact(f) ==
    /\ f \in DOMAIN disk
    /\ disk' = [x \in (DOMAIN disk) \ {f} |-> disk[x]]
    /\ last' = Call("remove_artifact", f, <<>>)
    /\ UNCHANGED <<active_models, csv, runs>>

\* the structured source appears at / disappears from CSV_PATH
SetCsv(b) ==
    /\ csv # b
    /\ csv' = b
    /\ last' = Call("set_csv", "", <<>>)
    /\ UNCHANGED <<active_models, disk, runs>>

Next ==
    \/ (\E n \in ModelNames : train_from_csv(n))
           /\ UNCHANGED <<fill, race, main>>
    \/ (\E n \in ModelNames, f \in Batches, nt \in TargetLens :
           train_model(f, nt, n))
           /\ UNCHANGED <<fill, race, main>>
    \/ (\E n \in ModelNames, f \in Batches : predict_yield(f, n))
           /\ UNCHANGED <<fill, race, main>>
    \/ list_models /\ UNCHANGED <<fill, race, main>>
    \/ Restart /\ UNCHANGED <<fill, race, main>>
    \/ (\E f \in DOMAIN disk : RemoveArtifact(f))
           /\ UNCHANGED <<fill, race, main>>
    \/ (\E b \in BOOLEAN : SetCsv(b))
           /\ UNCHANGED <<fill, race, main>>

Spec == Init /\ [][Next]_vars

\* ------------------------------------------- predict_yield, lines 136-143
\* the input frame of a modern prediction.  A labeled record is a function
\* from the field names it supplies to their values; a supplied value is
\* written "given", a numeric 0 is written "0"
MaxMissing == 2

required_cols ==
    <<"Region", "Crop", "Soil_Type", "Rainfall_mm", "Temperature_C", "pH">>

\* col in ['Rainfall_mm', 'Temperature_C', 'pH']
NumericCols == {"Rainfall_mm", "Temperature_C", "pH"}

\* the labeled records that lack at most MaxMissing of the expected fields
Records ==
    { [c \in S |-> "given"] :
        S \in { T \in SUBSET Range(required_cols) :
                  Cardinality(Range(required_cols) \ T) <= MaxMissing } }

LabeledBatches == UNION { [1..n -> Records] : n \in 1..MaxBatch }

\* pd.DataFrame(features) for a list of dicts: one row per record and one
\* column per key that some record has; the cell of a record that lacks
\* the key is NaN
DataFrame(features) ==
    LET columns == UNION { DOMAIN features[i] : i \in DOMAIN features }
    IN  [columns |-> columns,
         rows |-> [i \in DOMAIN features |->
                     [c \in columns |-> IF c \in DOMAIN features[i]
                                        THEN features[i][c] ELSE "NaN"]]]

\* df[col] = value: the column holds value in every row
SetColumn(df, col, value) ==
    [columns |-> df.columns \cup {col},
     rows |-> [i \in DOMAIN df.rows |-> Put(df.rows[i], col, value)]]

\* the loop of lines 139-141, from the i-th required column on
RECURSIVE FillMissing(_, _)
FillMissing(df, i) ==
    IF i > Len(required_cols) THEN df
    ELSE LET col == required_cols[i]
         IN  IF col \notin df.columns
             THEN FillMissing(
                      SetColumn(df, col,
                                IF col \in NumericCols THEN "0"
                                                       ELSE "unknown"),
                      i + 1)
             ELSE FillMissing(df, i + 1)

\* the rows of df hold a NaN
HasNaN(df) ==
    \E i \in DOMAIN df.rows : \E c \in df.columns : df.rows[i][c] = "NaN"

\* model.predict(df) of a fitted pipeline, line 143: a frame without NaN
\* is predicted; on a frame with NaN the installed scikit-learn decides
\* whether the regressor raises ValueError or predicts from the NaN
PredictOutcomes(df) == IF HasNaN(df) THEN {"ok", "raise"} ELSE {"ok"}

\* predict_yield(features, name) is called with labeled records for a
\* registered pipeline: features is bound
predict_enter(features) ==
    /\ frame.pc = "none"
    /\ frame' = [pc |-> "called", features |-> features, df |-> <<>>,
                 status |-> "none"]

\* lines 136-143: the frame is built, completed and handed to the model
predict_frame ==
    /\ frame.pc = "called"
    /\ LET df == FillMissing(DataFrame(frame.features), 1)
       IN  \E st \in PredictOutcomes(df) :
               frame' = [frame EXCEPT !.pc = "predicted", !.df = df,
                                      !.status = st]

FillInit ==
    /\ active_models = <<>>
    /\ disk = <<>>
    /\ csv = TRUE
    /\ runs = 0
    /\ last = Call("init", "", <<>>)
    /\ frame = NoFrame
    /\ threads = <<>>
    /\ self_models = <<>>
    /\ self_scalers = <<>>
    /\ pkl = <<>>

FillNext ==
    \/ (\E f \in LabeledBatches : predict_enter(f))
           /\ UNCHANGED <<ml, race, main>>
    \/ predict_frame /\ UNCHANGED <<ml, race, main>>

FillSpec == FillInit /\ [][FillNext]_vars

\* ------------------------------------- two predict_yield calls in progress
\* Two request threads run predict_yield on the same name.  A thread takes
\* one step per access to the registry or to the directory; threads.disk0
\* keeps the directory the two calls started with.
Threads == {1, 2}

\* the content of a file that joblib.dump has opened for writing and not
\* yet closed
Partial == [kind |-> "partial", run |-> 0]

\* the pipeline fitted from the CSV, lines 39-50: the same file and
\* random_state=42 give the same model to every fit
CsvModel == [kind |-> "Pipeline", run |-> runs + 1]

\* the model a call finds under saved_models when it starts
StoredModel == [kind |-> "Pipeline", run |-> 0]

\* a call that has not taken its first step
Entered(features, model_name) ==
    [pc |-> "check", model |-> NoModel,
     ret |-> Call("predict_yield", model_name, features)]

\* thread t moves to pc with local model m and outcome r
Step(t, pc, m, r) ==
    threads' = [threads EXCEPT !.call[t] = [pc |-> pc, model |-> m, ret |-> r]]

\* line 109: model_name not in active_models
t_check(t) ==
    LET c == threads.call[t] IN
    /\ c.pc = "check"
    /\ IF c.ret.name \in DOMAIN active_models
       THEN Step(t, "serve", c.model, [c.ret EXCEPT !.how = "hit"])
       ELSE Step(t, "exists", c.model, [c.ret EXCEPT !.how = "miss"])
    /\ UNCHANGED <<active_models, disk, csv, runs, last>>

\* lines 111, 116, 119, 122: os.path.exists(model_path) and the branches
\* taken without an artifact
t_exists(t) ==
    LET c == threads.call[t]
        name == c.ret.name
    IN
    /\ c.pc = "exists"
    /\ IF Exists(ModelPath(name))
       THEN Step(t, "load", c.model, [c.ret EXCEPT !.how = "load"])
       ELSE IF name \in DesignatedNames /\ csv
       THEN Step(t, "fit", c.model, [c.ret EXCEPT !.how = "autotrain"])
       ELSE IF name = "demo_model"
       THEN Step(t, "done", c.model,
                 [c.ret EXCEPT !.how = "dummy", !.path = "fallback",
                               !.out = _dummy_predict(c.ret.features)])
       ELSE Step(t, "done", c.model,
                 Raise([c.ret EXCEPT !.how = "notfound"], "ValueError"))
    /\ UNCHANGED <<active_models, disk, csv, runs, last>>

\* line 113, joblib.load(model_path): a file that is still being written
\* does not unpickle
t_load(t) ==
    LET c == threads.call[t]
        path == ModelPath(c.ret.name)
    IN
    /\ c.pc = "load"
    /\ IF ~Exists(path)
       THEN Step(t, "done", c.model, Raise(c.ret, "FileNotFoundError"))
       ELSE IF disk[path] = Partial
       THEN Step(t, "done", c.model, Raise(c.ret, "EOFError"))
       ELSE Step(t, "register", disk[path], c.ret)
    /\ UNCHANGED <<active_models, disk, csv, runs, last>>

\* train_from_csv, lines 36-50: read the CSV and fit
t_fit(t) ==
    LET c == threads.call[t] IN
    /\ c.pc = "fit"
    /\ IF ~csv
       THEN Step(t, "done", c.model, Raise(c.ret, "FileNotFoundError"))
       ELSE Step(t, "dump", CsvModel, c.ret)
    /\ UNCHANGED <<active_models, disk, csv, runs, last>>

\* train_from_csv, line 54, joblib.dump: the file is opened for writing,
\* which creates or truncates it
t_dump_open(t) ==
    LET c == threads.call[t] IN
    /\ c.pc = "dump"
    /\ disk' = Put(disk, ModelPath(c.ret.name), Partial)
    /\ Step(t, "write", c.model, c.ret)
    /\ UNCHANGED <<active_models, csv, runs, last>>

\* train_from_csv, line 54, joblib.dump: the last byte is written and the
\* file closed; the file is complete once no other thread is writing it
t_dump_close(t) ==
    LET c == threads.call[t] IN
    /\ c.pc = "write"
    /\ disk' = IF \E u \in Threads \ {t} : threads.call[u].pc = "write"
               THEN disk
               ELSE Put(disk, ModelPath(c.ret.name), c.model)
    /\ Step(t, "register", c.model, c.ret)
    /\ UNCHANGED <<active_models, csv, runs, last>>

\* lines 113 and 56: active_models[model_name] = model
t_register(t) ==
    LET c == threads.call[t] IN
    /\ c.pc = "register"
    /\ active_models' = Put(active_models, c.ret.name, c.model)
    /\ Step(t, "serve", c.model, c.ret)
    /\ UNCHANGED <<disk, csv, runs, last>>

\* lines 124-153: model = active_models[model_name] and the prediction
t_serve(t) ==
    LET c == threads.call[t] IN
    /\ c.pc = "serve"
    /\ Step(t, "done", c.model,
            Serve(c.ret, active_models[c.ret.name], c.ret.features))
    /\ UNCHANGED <<active_models, disk, csv, runs, last>>

\* the two calls arrive with an empty registry, with or without an
\* artifact of their name
RaceInit ==
    /\ active_models = <<>>
    /\ csv \in BOOLEAN
    /\ runs = 0
    /\ last = Call("init", "", <<>>)
    /\ frame = NoFrame
    /\ self_models = <<>>
    /\ self_scalers = <<>>
    /\ pkl = <<>>
    /\ \E n \in ModelNames :
         /\ disk \in {<<>>, Put(<<>>, ModelPath(n), StoredModel)}
         /\ \E f \in [Threads -> {<<"dict">>, <<"list">>}] :
              threads = [disk0 |-> disk,
                         call |-> [t \in Threads |-> Entered(f[t], n)]]

RaceNext ==
    \/ (\E t \in Threads : t_check(t)) /\ UNCHANGED <<fill, main>>
    \/ (\E t \in Threads : t_exists(t)) /\ UNCHANGED <<fill, main>>
    \/ (\E t \in Threads : t_load(t)) /\ UNCHANGED <<fill, main>>
    \/ (\E t \in Threads : t_fit(t)) /\ UNCHANGED <<fill, main>>
    \/ (\E t \in Threads : t_dump_open(t)) /\ UNCHANGED <<fill, main>>
    \/ (\E t \in Threads : t_dump_close(t)) /\ UNCHANGED <<fill, main>>
    \/ (\E t \in Threads : t_register(t)) /\ UNCHANGED <<fill, main>>
    \/ (\E t \in Threads : t_serve(t)) /\ UNCHANGED <<fill, main>>

RaceSpec == RaceInit /\ [][RaceNext]_vars

\* ------------------------------------------------------ backend/main.py
\* AgriculturalComputer: self.models and self.scalers hold, by model name,
\* the fitted regressor and the fitted StandardScaler; pkl holds the files
\* under models/ by base name.  A fitted object is [kind, run] as above,
\* runs numbers the fits of train_yield_model, and last records the last
\* call.
MainNames == {"default", "maize"}

\* cross_val_score(..., cv=5)
CvFolds == 5

\* the numbers of feature rows and of target values of a training request
SampleCounts == {0, CvFolds - 1, CvFolds}

\* f'models/{model_name}_model.pkl'
ModelPkl(model_name) == model_name \o "_model.pkl"

\* f'models/{model_name}_scaler.pkl'
ScalerPkl(model_name) == model_name \o "_scaler.pkl"

\* lines 144-157: fit_transform, fit and the five-fold cross-validation
\* raise on no rows, on rows and targets of different lengths and on fewer
\* rows than folds
MainFitOk(nf, nt) == nf = nt /\ nf >= CvFolds

\* AgriculturalComputer.train_yield_model, lines 138-181
train_yield_model(nf, nt, model_name) ==
    LET model == [kind |-> "RandomForestRegressor", run |-> runs + 1]
        scaler == [kind |-> "StandardScaler", run |-> runs + 1]
        call == Call("train_yield_model", model_name, <<>>)
    IN  IF ~MainFitOk(nf, nt)
        THEN /\ last' = Raise(call, "ValueError")
             /\ UNCHANGED <<self_models, self_scalers, pkl, runs>>
        ELSE /\ runs < MaxRuns
             /\ runs' = runs + 1
             /\ self_models' = Put(self_models, model_name, model)
             /\ self_scalers' = Put(self_scalers, model_name, scaler)
             /\ pkl' = Put(Put(pkl, ModelPkl(model_name), model),
                           ScalerPkl(model_name), scaler)
             /\ last' = [call EXCEPT !.by = model]

\* AgriculturalComputer.predict_yield, lines 183-198: the two loads of a
\* name that is not in self.models (the first assignment stays when the
\* second load raises), then the reads of self.models and self.scalers
main_predict_yield(model_name) ==
    LET call == Call("predict_yield", model_name, <<>>) IN
    /\ IF model_name \in DOMAIN self_models
       THEN /\ last' = IF model_name \in DOMAIN self_scalers
                       THEN [call EXCEPT !.by = self_models[model_name]]
                       ELSE Raise(call, "KeyError")
            /\ UNCHANGED <<self_models, self_scalers>>
       ELSE IF ModelPkl(model_name) \notin DOMAIN pkl
       THEN /\ last' = Raise(call, "HTTPException")
            /\ UNCHANGED <<self_models, self_scalers>>
       ELSE /\ self_models' =
                  Put(self_models, model_name, pkl[ModelPkl(model_name)])
            /\ IF ScalerPkl(model_name) \notin DOMAIN pkl
               THEN /\ last' = Raise(call, "HTTPException")
                    /\ UNCHANGED self_scalers
               ELSE /\ self_scalers' = Put(self_scalers, model_name,
                                           pkl[ScalerPkl(model_name)])
                    /\ last' = [call EXCEPT
                                   !.by = pkl[ModelPkl(model_name)]]
    /\ UNCHANGED <<pkl, runs>>

\* file.endswith('_model.pkl')
EndsWithModelPkl(file) ==
    Len(file) >= 10 /\ SubSeq(file, Len(file) - 9, Len(file)) = "_model.pkl"

\* file.replace('_model.pkl', ''), scanning from i
RECURSIVE ReplaceModelPklFrom(_, _)
ReplaceModelPklFrom(file, i) ==
    IF i > Len(file) THEN ""
    ELSE IF i + 9 <= Len(file) /\ SubSeq(file, i, i + 9) = "_model.pkl"
         THEN ReplaceModelPklFrom(file, i + 10)
         ELSE SubSeq(file, i, i) \o ReplaceModelPklFrom(file, i + 1)

\* startup_event, lines 448-455: the loop over os.listdir('models') from
\* the i-th file on; ms is [models, scalers].  The broad except keeps an
\* entry of models whose scaler file is missing
RECURSIVE LoadFiles(_, _, _)
LoadFiles(ms, files, i) ==
    IF i > Len(files) THEN ms
    ELSE IF EndsWithModelPkl(files[i])
    THEN LET model_name == ReplaceModelPklFrom(files[i], 1)
             m == Put(ms.models, model_name, pkl[files[i]])
         IN  IF ScalerPkl(model_name) \in DOMAIN pkl
             THEN LoadFiles([models |-> m,
                             scalers |-> Put(ms.scalers, model_name,
                                             pkl[ScalerPkl(model_name)])],
                            files, i + 1)
             ELSE LoadFiles([models |-> m, scalers |-> ms.scalers],
                            files, i + 1)
    ELSE LoadFiles(ms, files, i + 1)

\* the module is imported: agri_computer = AgriculturalComputer(), lines
\* 91-92 and 262
NewComputer ==
    /\ self_models' = <<>>
    /\ self_scalers' = <<>>
    /\ last' = Call("import", "", <<>>)
    /\ UNCHANGED <<pkl, runs>>

\* startup_event, lines 441-458: the server runs it once, after the import
\* and before the first request
startup_event ==
    LET ms == LoadFiles([models |-> self_models, scalers |-> self_scalers],
                        Listing(DOMAIN pkl), 1)
    IN  /\ last.op = "import"
        /\ self_models' = ms.models
        /\ self_scalers' = ms.scalers
        /\ last' = Call("startup_event", "", <<>>)
        /\ UNCHANGED <<pkl, runs>>

\* a file is deleted from models/ outside the program; a deletion between
\* the import and startup_event leaves startup_event to come
RemovePkl(f) ==
    /\ f \in DOMAIN pkl
    /\ pkl' = [x \in (DOMAIN pkl) \ {f} |-> pkl[x]]
    /\ last' = IF last.op = "import" THEN last
               ELSE Call("remove_pkl", f, <<>>)
    /\ UNCHANGED <<self_models, self_scalers, runs>>

MainInit ==
    /\ active_models = <<>>
    /\ disk = <<>>
    /\ csv = TRUE
    /\ runs = 0
    /\ last = Call("init", "", <<>>)
    /\ frame = NoFrame
    /\ threads = <<>>
    /\ self_models = <<>>
    /\ self_scalers = <<>>
    /\ pkl = <<>>

MainNext ==
    \/ (\E n \in MainNames, nf \in SampleCounts, nt \in SampleCounts :
           train_yield_model(nf, nt, n))
           /\ UNCHANGED <<active_models, disk, csv, fill, race>>
    \/ (\E n \in MainNames : main_predict_yield(n))
           /\ UNCHANGED <<active_models, disk, csv, fill, race>>
    \/ NewComputer /\ UNCHANGED <<active_models, disk, csv, fill, race>>
    \/ startup_event /\ UNCHANGED <<active_models, disk, csv, fill, race>>
    \/ (\E f \in DOMAIN pkl : RemovePkl(f))
           /\ UNCHANGED <<active_models, disk, csv, fill, race>>

MainSpec == MainInit /\ [][MainNext]_vars

\* ---------------------------------------------------------------- claims
TrainOps == {"train_model", "train_from_csv"}

Resolved == {"hit", "load", "autotrain"}

Count(seq, x) == Cardinality({ i \in DOMAIN seq : seq[i] = x })

\* C1: after a successful train_model under name X, with labeled records or
\* with legacy vectors, get_available_models() contains X, both right after
\* the call and after a restart that empties the registry and keeps the
\* artifacts.
C1_ListedAfterTrainAndRestart ==
    /\ []((last.op = "train_model" /\ last.status = "ok")
            => last.name \in Range(get_available_models))
    /\ [][(last.op = "train_model" /\ last.status = "ok"
              /\ last'.op = "restart")
            => last.name \in Range(get_available_models')]_vars

\* C2: predict_yield for a name that is not in the registry, has no artifact
\* and is not a designated identifier raises the model-not-found error,
\* with or without the structured source, and changes neither the registry
\* nor the artifacts; right after a successful train of a name, predict_yield
\* on it is no longer model-not-found and returns for a non-empty batch.
C2_UnknownModelNotFound ==
    [][ /\ (/\ last'.op = "predict_yield"
            /\ last'.name \notin DOMAIN active_models
            /\ ~Exists(ModelPath(last'.name))
            /\ last'.name \notin DesignatedNames)
            => /\ last'.status = "raise"
               /\ last'.err = "ValueError"
               /\ last'.how = "notfound"
               /\ last'.out = <<>>
               /\ active_models' = active_models
               /\ disk' = disk
        /\ (/\ last.op \in TrainOps
            /\ last.status = "ok"
            /\ last'.op = "predict_yield"
            /\ last'.name = last.name)
            => /\ last'.how = "hit"
               /\ Len(last'.features) > 0 => last'.status = "ok" ]_vars

C2_Witness ==
    /\ last.op = "predict_yield"
    /\ last.name \notin DesignatedNames
    /\ last.how = "notfound"
    /\ last.status = "raise"
    /\ csv
    /\ Len(last.features) > 0

\* C3 as stated: for each of "default", "demo_model" and "real_model" with no
\* artifact, predict_yield on a non-empty batch returns a sequence as long
\* as the batch and does not raise, with or without the structured source.
C3_DesignatedNeverRaise ==
    [][ (/\ last'.op = "predict_yield"
         /\ last'.name \in DesignatedNames
         /\ ~Exists(ModelPath(last'.name))
         /\ Len(last'.features) > 0)
        => /\ last'.status = "ok"
           /\ Len(last'.out) = Len(last'.features) ]_vars

\* C3 amended: with no artifact and a non-empty batch, predict_yield returns
\* a sequence as long as the batch for "demo_model" always, and for "default"
\* and "real_model" when the name is registered or the structured source is
\* available; for "default" and "real_model" neither registered nor
\* trainable it raises model-not-found.
C3_DemoModelNeverRaises ==
    [][ (/\ last'.op = "predict_yield"
         /\ last'.name \in DesignatedNames
         /\ ~Exists(ModelPath(last'.name))
         /\ Len(last'.features) > 0)
        => IF \/ last'.name = "demo_model"
              \/ csv
              \/ last'.name \in DOMAIN active_models
           THEN /\ last'.status = "ok"
                /\ Len(last'.out) = Len(last'.features)
           ELSE /\ last'.status = "raise"
                /\ last'.how = "notfound" ]_vars

C3_Witness ==
    /\ last.op = "predict_yield"
    /\ last.name = "demo_model"
    /\ last.how = "dummy"
    /\ ~csv
    /\ last.status = "ok"
    /\ Len(last.features) > 0
    /\ Len(last.out) = Len(last.features)

\* C4: when a non-empty batch does not match the resolved model (vectors for
\* a Pipeline, labeled records for a plain regressor), predict_yield does
\* not raise and does not call the model: it returns one fallback or
\* placeholder value per input.
C4_MismatchGetsPlaceholder ==
    (/\ last.op = "predict_yield"
     /\ last.how \in Resolved
     /\ Len(last.features) > 0
     /\ IF IsPipeline(active_models[last.name])
        THEN last.features[1] = "list"
        ELSE last.features[1] = "dict")
    => /\ last.status = "ok"
       /\ last.path \in {"fallback", "placeholder"}
       /\ last.by = NoModel
       /\ Len(last.out) = Len(last.features)
       /\ \A i \in DOMAIN last.out : last.out[i][1] # "model"

C4_Witness ==
    /\ last.op = "predict_yield"
    /\ last.how \in Resolved
    /\ ~IsPipeline(active_models[last.name])
    /\ IsListOfDicts(last.features)
    /\ last.path = "placeholder"
    /\ Len(last.out) > 1

\* C5: with the structured source present train_from_csv(m) succeeds from
\* any state, also when m is already registered or has an artifact; after
\* it the registry entry and the artifact of m are both the newly fitted
\* pipeline, which is none of the models held before, and
\* get_available_models() contains m exactly once.
C5_TrainFromCsvOverwrites ==
    /\ []((last.op = "train_from_csv" /\ last.status = "ok")
            => /\ Count(get_available_models, last.name) = 1
               /\ last.by = [kind |-> "Pipeline", run |-> runs]
               /\ active_models[last.name] = last.by
               /\ disk[ModelPath(last.name)] = last.by)
    /\ [][ (last'.op = "train_from_csv" /\ csv)
            => /\ last'.status = "ok"
               /\ \A k \in DOMAIN active_models :
                      active_models[k] # last'.by
               /\ \A f \in DOMAIN disk : disk[f] # last'.by ]_vars

C5_Witness ==
    /\ last.op = "train_from_csv"
    /\ last.status = "ok"
    /\ last.prior.kind = "Pipeline"
    /\ last.prior # last.by
    /\ active_models[last.name] = last.by
    /\ Count(get_available_models, last.name) = 1

\* C6: a predict_yield call that returns, whether by inference, by fallback
\* or by placeholder, returns exactly one value per input record, the i-th
\* value for the i-th record.
C6_OnePredictionPerInput ==
    (last.op = "predict_yield" /\ last.status = "ok")
    => /\ last.path \in {"model", "fallback", "placeholder"}
       /\ Len(last.out) = Len(last.features)
       /\ \A i \in DOMAIN last.out : last.out[i][2] = i

C6_Witness ==
    /\ last.op = "predict_yield"
    /\ last.status = "ok"
    /\ last.path = "placeholder"
    /\ Len(last.features) > 1
    /\ \A i \in DOMAIN last.features : last.out[i][2] = i

\* C7: right after a successful train_model under N with a batch of one
\* schema, predict_yield on N with a non-empty batch of that schema is
\* served from the registry by the model just trained, not by the fallback,
\* the placeholder or the model-not-found path.
C7_TrainThenPredictUsesModel ==
    [][ (/\ last.op = "train_model"
         /\ last.status = "ok"
         /\ last'.op = "predict_yield"
         /\ last'.name = last.name
         /\ Len(last'.features) > 0
         /\ last'.features[1] = last.features[1])
        => /\ last'.status = "ok"
           /\ last'.how = "hit"
           /\ last'.path = "model"
           /\ last'.by = last.by
           /\ Len(last'.out) = Len(last'.features) ]_vars

C7_Witness ==
    /\ last.op = "predict_yield"
    /\ last.how = "hit"
    /\ last.path = "model"
    /\ IsListOfLists(last.features)
    /\ last.by = [kind |-> "RandomForestRegressor", run |-> runs]
    /\ last.prior = last.by

\* C8: a training call that fails (train_from_csv without the structured
\* source, train_model whose fit raises) raises to the caller and leaves
\* the registry and the artifacts as they were, the prior entry of its name
\* included; a training call changes the registry only when it succeeds,
\* and then the registered model is also on disk.
C8_FailedTrainLeavesRegistry ==
    [][ /\ (last'.op = "train_from_csv" /\ ~csv)
            => (last'.status = "raise" /\ last'.err = "FileNotFoundError")
        /\ (last'.op = "train_model" /\ Len(last'.features) = 0)
            => last'.status = "raise"
        /\ (last'.op \in TrainOps /\ last'.status = "raise")
            => /\ active_models' = active_models
               /\ disk' = disk
               /\ IF last'.prior = NoModel
                  THEN last'.name \notin DOMAIN active_models'
                  ELSE active_models'[last'.name] = last'.prior
        /\ (last'.op \in TrainOps /\ active_models' # active_models)
            => /\ last'.status = "ok"
               /\ active_models'[last'.name] = last'.by
               /\ \E f \in DOMAIN disk' : disk'[f] = last'.by ]_vars

C8_Witness ==
    /\ last.op = "train_model"
    /\ last.status = "raise"
    /\ last.err = "ValueError"
    /\ IsListOfDicts(last.features)
    /\ last.prior # NoModel
    /\ active_models[last.name] = last.prior

\* C9: a successful train_model with legacy vectors under N does not
\* replace a pipeline registered under N: the registry entry of N is still
\* that pipeline, and predict_yield with labeled records on N right after
\* is served by it.
C9_LegacyTrainKeepsPipeline ==
    /\ []((/\ last.op = "train_model"
           /\ last.status = "ok"
           /\ IsListOfLists(last.features)
           /\ IsPipeline(last.prior))
          => active_models[last.name] = last.prior)
    /\ [][ (/\ last.op = "train_model"
            /\ last.status = "ok"
            /\ IsListOfLists(last.features)
            /\ IsPipeline(last.prior)
            /\ last'.op = "predict_yield"
            /\ last'.name = last.name
            /\ IsListOfDicts(last'.features))
           => (last'.path = "model" /\ last'.by = last.prior) ]_vars

\* C10: on a registry miss predict_yield first looks for the artifact: if it
\* exists it is loaded and registered and nothing is trained or written,
\* also for a designated name with the source available; only without an
\* artifact, for a designated name with the source available, it trains,
\* writes the artifact under that name and registers the model before
\* serving; otherwise it trains, writes and registers nothing.
C10_LoadBeforeAutoTrain ==
    [][ (last'.op = "predict_yield"
           /\ last'.name \notin DOMAIN active_models)
        => LET n == last'.name
               trained == [kind |-> "Pipeline", run |-> runs + 1]
           IN  IF Exists(ModelPath(n))
               THEN /\ last'.how = "load"
                    /\ active_models' = Put(active_models, n,
                                            disk[ModelPath(n)])
                    /\ disk' = disk
                    /\ runs' = runs
                    /\ last'.path = "model" => last'.by = disk[ModelPath(n)]
               ELSE IF n \in DesignatedNames /\ csv
               THEN /\ last'.how = "autotrain"
                    /\ runs' = runs + 1
                    /\ disk' = Put(disk, ModelPath(n), trained)
                    /\ active_models' = Put(active_models, n, trained)
                    /\ last'.path = "model" => last'.by = trained
               ELSE /\ last'.how \in {"dummy", "notfound"}
                    /\ active_models' = active_models
                    /\ disk' = disk
                    /\ runs' = runs ]_vars

C10_Witness ==
    /\ last.op = "predict_yield"
    /\ last.how = "load"
    /\ last.name \in DesignatedNames
    /\ csv
    /\ runs = 1
    /\ last.path = "model"
    /\ active_models[last.name] = disk[ModelPath(last.name)]

\* C11: once a name is in the registry, predict_yield on it is served from
\* the registry entry, loads and trains nothing and leaves registry and
\* artifacts unchanged, whatever has happened to the artifact or the
\* structured source; the entry stays as it is until a restart or a
\* successful train of that name.
C11_ResolvedServesFromRegistry ==
    [][ /\ (last'.op = "predict_yield"
              /\ last'.name \in DOMAIN active_models)
            => /\ last'.how = "hit"
               /\ active_models' = active_models
               /\ disk' = disk
               /\ runs' = runs
               /\ (last'.path = "model"
                     => last'.by = active_models[last'.name])
        /\ \A n \in DOMAIN active_models :
               (/\ last'.op # "restart"
                /\ ~(/\ last'.op \in TrainOps
                     /\ last'.status = "ok"
                     /\ last'.name = n))
               => /\ n \in DOMAIN active_models'
                  /\ active_models'[n] = active_models[n] ]_vars

C11_Witness ==
    /\ last.op = "predict_yield"
    /\ last.how = "hit"
    /\ last.path = "model"
    /\ last.by = active_models[last.name]
    /\ ~Exists(ModelPath(last.name))
    /\ ~Exists(LegacyPath(last.name))
    /\ ~csv

\* C12: a predict_yield call that ends in the stand-in fallback for an
\* unresolved name registers nothing and writes nothing, so the name is
\* still missing from get_available_models(); the next call for that name
\* is resolved from the registry, the directory and the source as they are
\* then, never from the earlier fallback.
C12_FallbackNotCached ==
    /\ []((last.op = "predict_yield" /\ last.how = "dummy")
            => /\ last.status = "ok"
               /\ last.path = "fallback"
               /\ last.by = NoModel
               /\ last.name \notin DOMAIN active_models
               /\ ~Exists(ModelPath(last.name))
               /\ last.name \notin Range(get_available_models))
    /\ [][ /\ (last'.op = "predict_yield" /\ last'.how = "dummy")
               => /\ active_models' = active_models
                  /\ disk' = disk
                  /\ runs' = runs
           /\ (/\ last.op = "predict_yield"
               /\ last.how = "dummy"
               /\ last'.op = "predict_yield"
               /\ last'.name = last.name)
               => last'.how = "dummy"
           /\ (/\ last'.op = "predict_yield"
               /\ last'.name = "demo_model"
               /\ "demo_model" \notin DOMAIN active_models)
               => last'.how = IF Exists(ModelPath("demo_model")) THEN "load"
                              ELSE IF csv THEN "autotrain"
                              ELSE "dummy" ]_vars

C12_Witness ==
    /\ last.op = "predict_yield"
    /\ last.how = "dummy"
    /\ last.path = "fallback"
    /\ Len(last.out) > 1
    /\ runs > 0
    /\ last.name \notin Range(get_available_models)

\* C15: an entry created by train_model under N survives a restart while its
\* artifact is there: right after a restart, predict_yield on N with a
\* non-empty batch of the schema of the newest training of N whose artifact
\* exists (the plain regressor in N_legacy.joblib for vectors, the pipeline
\* in N.joblib for labeled records) is served by that model.
C15_EntrySurvivesRestart ==
    [][ (/\ last.op = "restart"
         /\ last'.op = "predict_yield"
         /\ Len(last'.features) > 0)
        => LET mod == ModelPath(last'.name)
               leg == LegacyPath(last'.name)
               modern == Exists(mod) /\ IsPipeline(disk[mod])
               legacy == Exists(leg) /\ ~IsPipeline(disk[leg])
           IN  /\ (/\ legacy
                   /\ modern => disk[mod].run < disk[leg].run
                   /\ last'.features[1] = "list")
                  => (last'.path = "model" /\ last'.by = disk[leg])
               /\ (/\ modern
                   /\ legacy => disk[leg].run < disk[mod].run
                   /\ last'.features[1] = "dict")
                  => (last'.path = "model" /\ last'.by = disk[mod]) ]_vars

\* C16: a training call under N changes the registry entry and the artifact
\* of N only: for every other name M, N_legacy included, the registry entry
\* of M and the artifact M.joblib are the same before and after the call.
C16_TrainTouchesOnlyItsName ==
    [][ last'.op \in TrainOps
        => \A m \in ModelNames \ {last'.name} :
              /\ (m \in DOMAIN active_models) = (m \in DOMAIN active_models')
              /\ m \in DOMAIN active_models
                    => active_models'[m] = active_models[m]
              /\ Exists(ModelPath(m)) = (ModelPath(m) \in DOMAIN disk')
              /\ Exists(ModelPath(m))
                    => disk'[ModelPath(m)] = disk[ModelPath(m)] ]_vars

\* C17: in every reachable state of main.py a name in self.models has an
\* entry in self.scalers, and that scaler comes from the training run of
\* the model.
C17_ModelPairedWithTransform ==
    \A n \in DOMAIN self_models :
        /\ n \in DOMAIN self_scalers
        /\ self_scalers[n].run = self_models[n].run

\* C18: in every reachable state, if N is in the registry and N.joblib
\* exists, the two hold the same model (same fit, same kind), so a restart
\* does not change which model predict_yield on N uses.
C18_RegistryMatchesArtifact ==
    \A n \in DOMAIN active_models :
        Exists(ModelPath(n)) => disk[ModelPath(n)] = active_models[n]

\* the resolution of the first of the two calls when they run one after
\* the other, from the directory they started with
SequentialHow(name) ==
    IF ModelPath(name) \in DOMAIN threads.disk0 THEN "load"
    ELSE IF name \in DesignatedNames /\ csv THEN "autotrain"
    ELSE IF name = "demo_model" THEN "dummy"
    ELSE "notfound"

\* the model the sequential execution registers and persists
SequentialModel(name) ==
    IF SequentialHow(name) = "load" THEN threads.disk0[ModelPath(name)]
    ELSE CsvModel

\* the outcome r has the status, route, model and values of the outcome s
SameOutcome(r, s) ==
    /\ r.status = s.status
    /\ r.err = s.err
    /\ r.path = s.path
    /\ r.by = s.by
    /\ r.out = s.out

\* C13: when two concurrent predict_yield calls on one name both miss the
\* registry and have both returned, the registry entry and the artifact of
\* the name are those of a sequential execution of the two calls, and each
\* call has the outcome it has in the sequential execution: served by that
\* model, no additional raise.
C13_ConcurrentMissesAsSequential ==
    (/\ threads # <<>>
     /\ \A t \in Threads : threads.call[t].pc = "done"
     /\ \A t \in Threads : threads.call[t].ret.how # "hit")
    => LET name == threads.call[1].ret.name
           how == SequentialHow(name)
           model == SequentialModel(name)
       IN  IF how \in {"load", "autotrain"}
           THEN /\ name \in DOMAIN active_models
                /\ active_models[name] = model
                /\ Exists(ModelPath(name))
                /\ disk[ModelPath(name)] = model
                /\ \A t \in Threads :
                     LET r == threads.call[t].ret
                     IN  SameOutcome(r, Serve(r, model, r.features))
           ELSE /\ name \notin DOMAIN active_models
                /\ ~Exists(ModelPath(name))
                /\ \A t \in Threads :
                     LET r == threads.call[t].ret
                     IN  IF how = "dummy"
                         THEN r.status = "ok" /\ r.path = "fallback"
                         ELSE r.status = "raise" /\ r.err = "ValueError"

\* C14: for a pipeline model and a batch of labeled records, every record
\* that lacks one of the six expected fields reaches the model with that
\* field filled in, "0" for the numeric fields and "unknown" for the
\* others, also when another record of the batch supplies the field, and
\* the prediction does not fail.
C14_MissingFieldFilledPerRecord ==
    frame.pc = "predicted" =>
        /\ frame.status = "ok"
        /\ \A i \in DOMAIN frame.features :
             \A c \in Range(required_cols) \ DOMAIN frame.features[i] :
                 frame.df.rows[i][c] =
                     IF c \in NumericCols THEN "0" ELSE "unknown"
====
